---- MODULE Spec2Model ----
(***************************************************************************)
(* Model of the recommendation engine of src/src/enhanced_recommendation.py *)
(* (EnhancedMovieRecommender) fed by the provider of src/src/enhanced_data.py.*)
(* Also the basic engine of src/src/recommendation.py (MovieRecommender)    *)
(* with the processor of src/src/data_processing.py.                       *)
(*                                                                         *)
(* Numbers.  Ratings are in tenths (8.0 is 80), the caller's weights are in *)
(* tenths (0.7 is 7), raw preference scores are in halves (2 is 4, 1.5 is  *)
(* 3).  A normalised or combined score is an exact fraction [num, den] with *)
(* den > 0 whenever the code divides by a non-zero number; den = 0 stands  *)
(* for a division by zero.                                                 *)
(*                                                                         *)
(* Strings.  A text field is the sequence of its comma separated pieces    *)
(* (the result of split(',')); a missing value is NaN.                     *)
(***************************************************************************)
EXTENDS Integers, Naturals, Sequences, FiniteSets, TLC

\* ---------------------------------------------------------------- bounds

\* Rows of the provider's table.
MaxCatalog == 3
\* Largest top_n a caller asks for.
MaxTopN == 2
\* Comma separated pieces of a raw field given to a normaliser.
MaxPieces == 2

\* ---------------------------------------------------------------- values

\* A missing value (NaN).  split(',') never yields zero pieces, so the empty
\* sequence is free to stand for it.
NaN == <<>>

Range(s) == {s[i] : i \in DOMAIN s}

RECURSIVE SumSeq(_)
SumSeq(s) == IF s = <<>> THEN 0 ELSE Head(s) + SumSeq(Tail(s))

Reverse(s) == [i \in 1..Len(s) |-> s[Len(s) + 1 - i]]

Min2(a, b) == IF a <= b THEN a ELSE b

SeqMin(s) == CHOOSE x \in Range(s) : \A y \in Range(s) : x <= y
SeqMax(s) == CHOOSE x \in Range(s) : \A y \in Range(s) : x >= y

\* Exact fractions; den > 0 in every comparison.
Frac(n, d) == [num |-> n, den |-> d]
FracLess(a, b) == a.num * b.den < b.num * a.den
FracEq(a, b) == a.num * b.den = b.num * a.den
FracLeq(a, b) == a.num * b.den <= b.num * a.den

\* str.strip() on the strings of the model.
StripTable ==
    (" Drama" :> "Drama") @@ (" Tim Robbins" :> "Tim Robbins") @@
    ("Joss Whedon " :> "Joss Whedon") @@ (" " :> "")
Strip(s) == IF s \in DOMAIN StripTable THEN StripTable[s] ELSE s

\* str.lower() on the strings of the model.
LowerTable ==
    ("Chris Evans" :> "chris evans") @@ ("Tim Robbins" :> "tim robbins") @@
    ("Joss Whedon" :> "joss whedon") @@ ("JOSS WHEDON" :> "joss whedon") @@
    ("Frank Darabont" :> "frank darabont") @@ ("CHRIS EVANS" :> "chris evans")
Lower(s) == IF s \in DOMAIN LowerTable THEN LowerTable[s] ELSE s

\* str(x).split(','): the pieces of a comma separated field, 'nan' for NaN.
SplitStr(x) == IF x = NaN THEN <<"nan">> ELSE x

\* ---------------------------------------------------------------- provider

\* Raw records of the provider's table (title and row label come from the
\* position in the table).
ItemPool ==
    { [type |-> "movie", language |-> "English", genre |-> <<"Action">>,
       director |-> <<"Joss Whedon">>, actors |-> <<"Chris Evans">>,
       imdb_rating |-> 80],
      [type |-> "movie", language |-> "English", genre |-> <<"Drama">>,
       director |-> <<"Frank Darabont">>, actors |-> <<"Tim Robbins">>,
       imdb_rating |-> 80],
      [type |-> "web_series", language |-> "Hindi",
       genre |-> <<"Action", " Drama">>,
       director |-> <<"Joss Whedon ">>, actors |-> NaN,
       imdb_rating |-> 90],
      [type |-> "movie", language |-> "Hindi", genre |-> <<"Drama">>,
       director |-> NaN, actors |-> <<"Chris Evans", " Tim Robbins">>,
       imdb_rating |-> 65] }

\* Titles are unique; the first two differ by an English stop word only.
Titles == <<"Heat", "The Heat", "T2", "T3", "T4">>

\* pd.DataFrame(data): rows labelled 0..N-1 in table order.
DataFrame(data) ==
    [i \in 1..Len(data) |->
        [label |-> i - 1, title |-> Titles[i], type |-> data[i].type,
         language |-> data[i].language, genre |-> data[i].genre,
         director |-> data[i].director, actors |-> data[i].actors,
         imdb_rating |-> data[i].imdb_rating]]

Tables == UNION {[1..n -> ItemPool] : n \in 1..MaxCatalog}

\* EnhancedDataProvider.get_all_data / get_movies_only.  A boolean-mask
\* selection df[mask] keeps the selected rows in order, with their labels.
Views == {"all", "movies_only"}
get_movies_only(movies_data) ==
    SelectSeq(movies_data, LAMBDA r : r.type = "movie")
ProviderView(movies_data, view) ==
    IF view = "all" THEN movies_data ELSE get_movies_only(movies_data)

\* ---------------------------------------------------------------- requests

\* user_preferences: genres are compared as written, names in lower case.
PrefProfiles ==
    { [genres |-> {}, actors |-> {}, directors |-> {}],
      [genres |-> {"Action"}, actors |-> {}, directors |-> {}],
      [genres |-> {"Action", "Drama"}, actors |-> {}, directors |-> {}],
      [genres |-> {"Action"}, actors |-> {"CHRIS EVANS"}, directors |-> {}],
      [genres |-> {}, actors |-> {}, directors |-> {"JOSS WHEDON"}],
      [genres |-> {"Drama"}, actors |-> {}, directors |-> {"JOSS WHEDON"}] }
PrefFilters ==
    { [content_type |-> "all", language |-> "all"],
      [content_type |-> "movie", language |-> "all"],
      [content_type |-> "all", language |-> "Hindi"],
      [content_type |-> "movie", language |-> "Hindi"] }
\* (rating_weight, preference_weight) in tenths; 0.7 and 0.3 are the defaults.
DefaultWeights == <<7, 3>>
WeightPairs == {DefaultWeights, <<7, 0>>, <<7, 7>>}
\* top_n and the weights of a call: every top_n with the default weights,
\* every weight pair with the largest top_n.
CallSettings ==
    {[top_n |-> n, weights |-> DefaultWeights] : n \in 1..MaxTopN}
    \cup {[top_n |-> MaxTopN, weights |-> w] : w \in WeightPairs}

Requests ==
    { [genres |-> p.genres, actors |-> p.actors, directors |-> p.directors,
       content_type |-> f.content_type, language |-> f.language,
       top_n |-> c.top_n, rating_weight |-> c.weights[1],
       preference_weight |-> c.weights[2]] :
      p \in PrefProfiles, f \in PrefFilters, c \in CallSettings }

\* Order in which np.argsort (kind='quicksort', not a stable sort) leaves
\* equal keys: a property of the numpy build, the same on every call.
ArgsortTies == {"ascending", "descending"}

\* ---------------------------------------------------------------- fit

\* fit, line 30: [g.strip() for g in str(x).split(',')].
GenreList(x) == [i \in 1..Len(SplitStr(x)) |-> Strip(SplitStr(x)[i])]

\* A row of self.df once fit has added the 'genres' column.
FittedRow(r) ==
    [label |-> r.label, title |-> r.title, type |-> r.type,
     language |-> r.language, genre |-> r.genre, director |-> r.director,
     actors |-> r.actors, imdb_rating |-> r.imdb_rating,
     genres |-> GenreList(r.genre)]

FittedRows(rows) == [i \in 1..Len(rows) |-> FittedRow(rows[i])]

\* TfidfVectorizer.fit_transform raises ValueError on a frame without rows
\* (empty vocabulary); self.df is already assigned by then.
FitRaises(rows) == Len(rows) = 0

\* Lines 33-38: MultiLabelBinarizer over the 'genres' lists.  One column per
\* class, one row per row of self.df, labelled as the frame (index =
\* self.df.index); a cell is 1 when the class is in the row's list.
GenreClasses(rows) == UNION {Range(rows[p].genres) : p \in DOMAIN rows}

\* The 0/1 table of the rows over the classes.
Binarize(rows, classes) ==
    [columns |-> classes,
     index |-> [p \in DOMAIN rows |-> rows[p].label],
     values |-> [p \in DOMAIN rows |->
                   [c \in classes |->
                      IF c \in Range(rows[p].genres) THEN 1 ELSE 0]]]

\* GenreMatrix with the rows taken in reverse order under the frame's labels.
GenreMatrixReversed(rows) ==
    [Binarize(rows, GenreClasses(rows)) EXCEPT
        !.values = Reverse(Binarize(rows, GenreClasses(rows)).values)]

GenreMatrix(rows) == Binarize(rows, GenreClasses(rows))

\* The terms TfidfVectorizer(stop_words='english') keeps of a string of the
\* model: its words of two or more characters, in lower case, that are not
\* English stop words ('the' is one).
Terms(s) ==
    CASE s = "Heat" -> {"heat"}
      [] s = "The Heat" -> {"heat"}
      [] s = "T2" -> {"t2"}
      [] s = "T3" -> {"t3"}
      [] s = "T4" -> {"t4"}
      [] s \in {"Joss Whedon", "Joss Whedon "} -> {"joss", "whedon"}
      [] s = "Frank Darabont" -> {"frank", "darabont"}
      [] s = "Chris Evans" -> {"chris", "evans"}
      [] s \in {"Tim Robbins", " Tim Robbins"} -> {"tim", "robbins"}
      [] s = "movie" -> {"movie"}
      [] s = "web_series" -> {"web_series"}
      [] s = "English" -> {"english"}
      [] s = "Hindi" -> {"hindi"}
      [] s = "nan" -> {"nan"}
FieldTerms(x) == UNION {Terms(SplitStr(x)[i]) : i \in DOMAIN SplitStr(x)}

\* Lines 53-63: the text of a row is its title, director, actors,
\* description, country, type and language, str() of each (so 'nan' for a
\* missing one).  The records of the model have an empty description and
\* country.  The value is the set of terms of that text.
create_text_features(row) ==
    Terms(row.title) \cup FieldTerms(row.director) \cup FieldTerms(row.actors)
        \cup Terms(row.type) \cup Terms(row.language)

\* Lines 44-45: one vector per row, in row order.  A vector is kept as the
\* set of its terms: every term of a text has the same weight.
TfidfMatrix(rows) == [p \in DOMAIN rows |-> create_text_features(rows[p])]

\* The cosine of two term vectors, kept as its square (an exact fraction:
\* squaring keeps the order and the values 0 and 1).  sklearn normalises
\* the rows first and leaves an all-zero row as it is, so every cosine with
\* an all-zero vector is 0, its cosine with itself included.
CosineOf(dot, na, nb) ==
    IF na = 0 \/ nb = 0 THEN Frac(0, 1) ELSE Frac(dot * dot, na * nb)
Cosine(a, b) == CosineOf(Cardinality(a \cap b), Cardinality(a), Cardinality(b))

\* Line 48: cosine_similarity(self.tfidf_matrix), rows and columns by
\* position.
cosine_similarity(X) ==
    [p \in DOMAIN X |-> [q \in DOMAIN X |-> Cosine(X[p], X[q])]]

\* ---------------------------------------------------------------- scoring

\* 2 and 1.5, in halves.
GenreWeightX2 == 2 * 2
ActorWeightX2 == 3
DirectorWeightX2 == 3

LowerNames(names) == {Lower(Strip(a)) : a \in names}

GenreOverlap(movie, req) == Range(movie.genres) \cap req.genres

ActorOverlap(movie, req) ==
    LowerNames(Range(movie.actors)) \cap LowerNames(req.actors)

\* movie['director'].strip().lower() in user_directors: the whole field is
\* compared, so a field of several pieces equals no single name.
DirectorMatch(movie, req) ==
    /\ Len(movie.director) = 1
    /\ Lower(Strip(movie.director[1])) \in LowerNames(req.directors)

\* The writes scores[i] += x of the three loops over df.iterrows(), in
\* program order; i is the row LABEL of the frame that was passed in.
GenreWrites(rows, req) ==
    IF req.genres # {}
    THEN [k \in 1..Len(rows) |->
            [at |-> rows[k].label,
             add |-> GenreWeightX2 * Cardinality(GenreOverlap(rows[k], req))]]
    ELSE <<>>

ActorWrites(rows, req) ==
    IF req.actors # {}
    THEN LET have == SelectSeq(rows, LAMBDA r : r.actors # NaN)
         IN  [k \in 1..Len(have) |->
                [at |-> have[k].label,
                 add |-> ActorWeightX2 * Cardinality(ActorOverlap(have[k], req))]]
    ELSE <<>>

DirectorWrites(rows, req) ==
    IF req.directors # {}
    THEN LET hit == SelectSeq(rows,
                      LAMBDA r : r.director # NaN /\ DirectorMatch(r, req))
         IN  [k \in 1..Len(hit) |->
                [at |-> hit[k].label, add |-> DirectorWeightX2]]
    ELSE <<>>

ScoreWrites(rows, req) ==
    GenreWrites(rows, req) \o ActorWrites(rows, req) \o DirectorWrites(rows, req)

\* scores = np.zeros(len(df)); scores[i] += x for every write: position i of
\* the array, IndexError when i is not below len(df).
calculate_preference_scores(rows, req) ==
    LET n == Len(rows)
        writes == ScoreWrites(rows, req)
        at(p) == SelectSeq(writes, LAMBDA w : w.at = p - 1)
    IN  [raised |-> \E k \in DOMAIN writes : writes[k].at >= n,
         scores |-> [p \in 1..n |->
                       SumSeq([k \in 1..Len(at(p)) |-> at(p)[k].add])]]

\* ---------------------------------------------------------------- ranking


\* NormalizePreference without the pref_max > pref_min test.
NormalizePreferenceUnguarded(scores) ==
    [p \in DOMAIN scores |->
        Frac(scores[p] - SeqMin(scores), SeqMax(scores) - SeqMin(scores))]

\* Lines 93-98.
NormalizePreference(scores) ==
    IF Len(scores) > 0
    THEN LET pref_min == SeqMin(scores)
             pref_max == SeqMax(scores)
         IN  IF pref_max > pref_min
             THEN [p \in DOMAIN scores |->
                     Frac(scores[p] - pref_min, pref_max - pref_min)]
             ELSE [p \in DOMAIN scores |-> Frac(0, 1)]
    ELSE <<>>

\* NormalizeImdb with zeros where the code puts ones.
NormalizeImdbZeros(scores) ==
    IF Len(scores) > 0 /\ SeqMax(scores) > SeqMin(scores)
    THEN [p \in DOMAIN scores |->
            Frac(scores[p] - SeqMin(scores), SeqMax(scores) - SeqMin(scores))]
    ELSE [p \in DOMAIN scores |-> Frac(0, 1)]

\* NormalizeImdb that only rescales the 0-10 rating (rating / 10 in tenths)
\* and leaves out the min-max step.
NormalizeImdbRaw(scores) == [p \in DOMAIN scores |-> Frac(scores[p], 10)]

\* Lines 100-105.
NormalizeImdb(scores) ==
    IF Len(scores) > 0
    THEN LET imdb_min == SeqMin(scores)
             imdb_max == SeqMax(scores)
         IN  IF imdb_max > imdb_min
             THEN [p \in DOMAIN scores |->
                     Frac(scores[p] - imdb_min, imdb_max - imdb_min)]
             ELSE [p \in DOMAIN scores |-> Frac(1, 1)]
    ELSE <<>>

\* CombineScores with the two weights exchanged.
CombineScoresSwapped(rating_weight, preference_weight, imdb, pref) ==
    [p \in DOMAIN imdb |->
        Frac(preference_weight * imdb[p].num * pref[p].den
               + rating_weight * pref[p].num * imdb[p].den,
             10 * imdb[p].den * pref[p].den)]

\* CombineScores that subtracts the preference term.
CombineScoresMinus(rating_weight, preference_weight, imdb, pref) ==
    [p \in DOMAIN imdb |->
        Frac(rating_weight * imdb[p].num * pref[p].den
               - preference_weight * pref[p].num * imdb[p].den,
             10 * imdb[p].den * pref[p].den)]

\* Line 108, weights in tenths.
CombineScores(rating_weight, preference_weight, imdb, pref) ==
    [p \in DOMAIN imdb |->
        Frac(rating_weight * imdb[p].num * pref[p].den
               + preference_weight * pref[p].num * imdb[p].den,
             10 * imdb[p].den * pref[p].den)]

\* np.argsort: the positions in ascending order of score; equal scores in
\* the order the build's sort leaves them.
Argsort(scores, ties) ==
    LET n == Len(scores)
        before(p, q) ==
            \/ FracLess(scores[p], scores[q])
            \/ /\ FracEq(scores[p], scores[q])
               /\ IF ties = "ascending" THEN p < q ELSE p > q
        rank(p) == 1 + Cardinality({q \in 1..n : before(q, p)})
    IN  [r \in 1..n |-> CHOOSE p \in 1..n : rank(p) = r]

\* TopIndices without the [::-1].
TopIndicesNoReverse(scores, top_n, ties) ==
    SubSeq(Argsort(scores, ties), 1, Min2(top_n, Len(scores)))

\* Line 111: np.argsort(combined_scores)[::-1][:min(top_n, len(filtered_df))]
TopIndices(scores, top_n, ties) ==
    SubSeq(Reverse(Argsort(scores, ties)), 1, Min2(top_n, Len(scores)))

\* ---------------------------------------------------------------- explainer

HighRating == 80
WellRating == 70

\* explain_recommendation that ends every explanation with the fallback.
explain_recommendationWithFallback(movie, req) ==
    LET genre_overlap == GenreOverlap(movie, req)
        g == IF req.genres # {} /\ genre_overlap # {}
             THEN <<[clause |-> "genres", names |-> genre_overlap]>> ELSE <<>>
        q == IF movie.imdb_rating >= HighRating
             THEN <<[clause |-> "highly_rated", names |-> {}]>>
             ELSE IF movie.imdb_rating >= WellRating
                  THEN <<[clause |-> "well_rated", names |-> {}]>>
                  ELSE <<>>
    IN  g \o q \o <<[clause |-> "fallback", names |-> {}]>>

\* _explain_recommendation, lines 167-203: the reasons in the order they
\* are appended, each with the set of names it will list.
explain_recommendation(movie, req) ==
    LET genre_overlap == GenreOverlap(movie, req)
        g == IF req.genres # {} /\ genre_overlap # {}
             THEN <<[clause |-> "genres", names |-> genre_overlap]>> ELSE <<>>
        actor_overlap ==
            IF movie.actors # NaN THEN ActorOverlap(movie, req) ELSE {}
        a == IF req.actors # {} /\ movie.actors # NaN /\ actor_overlap # {}
             THEN <<[clause |-> "actors", names |-> actor_overlap]>> ELSE <<>>
        d == IF req.directors # {} /\ movie.director # NaN
                /\ DirectorMatch(movie, req)
             THEN <<[clause |-> "director", names |-> Range(movie.director)]>>
             ELSE <<>>
        q == IF movie.imdb_rating >= HighRating
             THEN <<[clause |-> "highly_rated", names |-> {}]>>
             ELSE IF movie.imdb_rating >= WellRating
                  THEN <<[clause |-> "well_rated", names |-> {}]>>
                  ELSE <<>>
        reasons == g \o a \o d \o q
    IN  IF reasons = <<>>
        THEN <<[clause |-> "fallback", names |-> {}]>>
        ELSE reasons

\* The seed of the str hashes, drawn when the interpreter starts: it fixes
\* the order in which a set of strings is iterated.
HashSeeds == {"listed", "reversed"}

\* Lines 177 and 185, ', '.join(overlap): the names of a set in the order
\* the set yields them, here the order of the item's own list or its
\* reverse.
JoinSet(names, listed, hash_seed) ==
    SelectSeq(IF hash_seed = "listed" THEN listed ELSE Reverse(listed),
              LAMBDA x : x \in names)

\* The list a clause takes its names from.
ListedNames(movie, clause) ==
    CASE clause = "genres" -> movie.genres
      [] clause = "actors" ->
            [i \in DOMAIN movie.actors |-> Lower(Strip(movie.actors[i]))]
      [] clause = "director" -> movie.director
      [] OTHER -> <<>>

\* Line 203: the explanation as it is printed, clause by clause.
ExplanationString(movie, req, hash_seed) ==
    [k \in DOMAIN explain_recommendation(movie, req) |->
        [clause |-> explain_recommendation(movie, req)[k].clause,
         names |-> JoinSet(explain_recommendation(movie, req)[k].names,
                           ListedNames(movie,
                               explain_recommendation(movie, req)[k].clause),
                           hash_seed)]]

\* No item explained yet.
NoExplainer ==
    [hash_seed |-> "listed", movie |-> <<>>, explanation |-> <<>>,
     earlier |-> <<>>]

\* ---------------------------------------------------------------- rank

NoLocals ==
    [filtered_df |-> <<>>, raw_scores |-> <<>>, preference_scores |-> <<>>,
     imdb_scores |-> <<>>, combined_scores |-> <<>>, top_indices |-> <<>>]

\* FilterRows that forgets the language filter.
FilterRowsTypeOnly(rows, req) ==
    IF req.content_type # "all"
    THEN SelectSeq(rows, LAMBDA r : r.type = req.content_type)
    ELSE rows

\* Lines 70-80: the content type and language filters.
FilterRows(rows, req) ==
    LET by_type == IF req.content_type # "all"
                   THEN SelectSeq(rows, LAMBDA r : r.type = req.content_type)
                   ELSE rows
    IN  IF req.language # "all"
        THEN SelectSeq(by_type, LAMBDA r : r.language = req.language)
        ELSE by_type

\* Lines 113-131: one result record per top index.
Recommendations(filtered_df, top_indices, combined_scores, req) ==
    [k \in 1..Len(top_indices) |->
        LET movie == filtered_df[top_indices[k]]
        IN  [title |-> movie.title, type |-> movie.type,
             language |-> movie.language, genres |-> movie.genres,
             director |-> movie.director, imdb_rating |-> movie.imdb_rating,
             explanation |-> explain_recommendation(movie, req),
             similarity_score |-> combined_scores[top_indices[k]]]]

\* get_recommendations: what it returns or raises, and its local variables.
get_recommendations(rows, fitted, req, ties) ==
    IF ~fitted
    THEN [status |-> "NotFitted", recs |-> <<>>, locals |-> NoLocals]
    ELSE
    LET filtered_df == FilterRows(rows, req) IN
    IF Len(filtered_df) = 0
    THEN [status |-> "ok", recs |-> <<>>, locals |-> NoLocals]
    ELSE
    LET raw == calculate_preference_scores(filtered_df, req) IN
    IF raw.raised
    THEN [status |-> "IndexError", recs |-> <<>>,
          locals |-> [NoLocals EXCEPT !.filtered_df = filtered_df]]
    ELSE
    LET preference_scores == NormalizePreference(raw.scores)
        imdb_scores ==
            NormalizeImdb([p \in DOMAIN filtered_df |->
                             filtered_df[p].imdb_rating])
        combined_scores ==
            CombineScores(req.rating_weight, req.preference_weight,
                          imdb_scores, preference_scores)
        top_indices == TopIndices(combined_scores, req.top_n, ties)
    IN  [status |-> "ok",
         recs |-> Recommendations(filtered_df, top_indices, combined_scores, req),
         locals |-> [filtered_df |-> filtered_df, raw_scores |-> raw.scores,
                     preference_scores |-> preference_scores,
                     imdb_scores |-> imdb_scores,
                     combined_scores |-> combined_scores,
                     top_indices |-> top_indices]]

\* A normalisation done in place on filtered_df['imdb_rating'].values, which
\* writes the normalised ratings (here in tenths) through to self.df.
DfAfterRecommendationsInPlace(rows, out) ==
    IF out.status = "ok" /\ Len(out.locals.filtered_df) = Len(rows)
    THEN [p \in DOMAIN rows |->
            [rows[p] EXCEPT !.imdb_rating =
                (10 * out.locals.imdb_scores[p].num)
                    \div out.locals.imdb_scores[p].den]]
    ELSE rows

\* get_recommendations only reads self.df: normalisation rebinds the local
\* names (lines 96, 103) and never writes through to the frame.
DfAfterRecommendations(rows, out) == rows

\* ---------------------------------------------------------------- similar

\* Line 219: sorted(sim_scores, key=lambda x: x[1], reverse=True).  Python's
\* sort is stable, with reverse=True too: equal scores stay in ascending
\* position.  The value is the positions of the row, best first.
SortedBySimilarity(row) ==
    LET n == Len(row)
        before(p, q) ==
            \/ FracLess(row[q], row[p])
            \/ FracEq(row[p], row[q]) /\ p < q
        rank(p) == 1 + Cardinality({q \in 1..n : before(q, p)})
    IN  [r \in 1..n |-> CHOOSE p \in 1..n : rank(p) = r]

\* Line 222: sim_scores[1:min(top_n+1, len(sim_scores))].
SimilarSlice(order, top_n) == SubSeq(order, 2, Min2(top_n + 1, Len(order)))

\* Lines 225-239: one record per picked position, read with self.df.iloc.
SimilarMovies(rows, row, picked) ==
    [k \in 1..Len(picked) |->
        LET movie == rows[picked[k]]
        IN  [title |-> movie.title, type |-> movie.type,
             language |-> movie.language, genres |-> movie.genres,
             director |-> movie.director, imdb_rating |-> movie.imdb_rating,
             similarity_score |-> row[picked[k]]]]

\* get_similar_movies without the is_fitted test of lines 207-208.
get_similar_moviesUnguarded(rows, sim, fitted, title, top_n) ==
    LET hits == SelectSeq(rows, LAMBDA r : r.title = title) IN
    IF Len(hits) = 0 \/ hits[1].label >= Len(sim)
    THEN [status |-> "ok", items |-> <<>>]
    ELSE [status |-> "ok",
          items |-> SimilarMovies(rows, sim[hits[1].label + 1],
                       SimilarSlice(
                           SortedBySimilarity(sim[hits[1].label + 1]), top_n))]

\* get_similar_movies(title, top_n): lines 205-241.  movie_idx is the LABEL
\* of the first row with the title; similarity_matrix[movie_idx] and
\* df.iloc[idx] take positions, and raise IndexError past the end.
get_similar_movies(rows, sim, fitted, title, top_n) ==
    IF ~fitted
    THEN [status |-> "NotFitted", items |-> <<>>]
    ELSE
    LET hits == SelectSeq(rows, LAMBDA r : r.title = title) IN
    IF Len(hits) = 0
    THEN [status |-> "ok", items |-> <<>>]
    ELSE
    LET movie_idx == hits[1].label IN
    IF movie_idx >= Len(sim)
    THEN [status |-> "IndexError", items |-> <<>>]
    ELSE
    LET row == sim[movie_idx + 1]
        picked == SimilarSlice(SortedBySimilarity(row), top_n)
    IN  IF \E k \in DOMAIN picked : picked[k] > Len(rows)
        THEN [status |-> "IndexError", items |-> <<>>]
        ELSE [status |-> "ok", items |-> SimilarMovies(rows, row, picked)]

\* ---------------------------------------------------------------- top lists

\* DataFrame.sort_values('imdb_rating', ascending=False), kind='quicksort':
\* pandas reverses the column, takes its argsort and reverses the outcome,
\* so equal ratings come out as the build's sort leaves them.
SortValues(rows, ties) ==
    LET rev == Reverse(rows)
        order == Argsort([p \in DOMAIN rev |-> Frac(rev[p].imdb_rating, 1)],
                         ties)
    IN  Reverse([k \in DOMAIN rev |-> rev[order[k]]])

\* DataFrame.head(n) and the slice [:n].
head(rows, n) == SubSeq(rows, 1, Min2(n, Len(rows)))

\* Lines 257-270 and 284-297: one record per row of the list.
TopRecords(rows) ==
    [k \in DOMAIN rows |->
        [title |-> rows[k].title, type |-> rows[k].type,
         language |-> rows[k].language, genres |-> rows[k].genres,
         director |-> rows[k].director, imdb_rating |-> rows[k].imdb_rating]]

\* GenreMovies without the rating threshold.
GenreMoviesAnyRating(rows, genre, min_rating) ==
    SelectSeq(rows, LAMBDA r : genre \in Range(r.genres))

\* Lines 249-252: the rows that carry the genre and reach the rating.
GenreMovies(rows, genre, min_rating) ==
    SelectSeq(rows, LAMBDA r :
        genre \in Range(r.genres) /\ r.imdb_rating >= min_rating)

\* get_genre_recommendations(genre, top_n, min_rating): lines 243-272.
get_genre_recommendations(rows, fitted, genre, top_n, min_rating, ties) ==
    IF ~fitted
    THEN [status |-> "NotFitted", items |-> <<>>]
    ELSE [status |-> "ok",
          items |-> TopRecords(head(
              SortValues(GenreMovies(rows, genre, min_rating), ties), top_n))]

\* get_language_recommendations(language, top_n): lines 274-299.
get_language_recommendations(rows, fitted, language, top_n, ties) ==
    IF ~fitted
    THEN [status |-> "NotFitted", items |-> <<>>]
    ELSE [status |-> "ok",
          items |-> TopRecords(head(
              SortValues(SelectSeq(rows, LAMBDA r : r.language = language),
                         ties), top_n))]

\* ---------------------------------------------------------------- taste

TasteRating == 80
TasteRows == 10
TasteGenres == 5

RECURSIVE ConcatAll(_)
ConcatAll(ss) == IF ss = <<>> THEN <<>> ELSE Head(ss) \o ConcatAll(Tail(ss))

NoTaste ==
    [genre_ratings |-> <<>>, underrepresented_genres |-> {},
     high_rated_genres |-> <<>>]

\* Lines 310-314: the mean rating (a fraction, in tenths) of every preferred
\* genre that some row carries.
GenreRatings(rows, user_genres) ==
    LET of(g) == SelectSeq(rows, LAMBDA r : g \in Range(r.genres))
    IN  [g \in {h \in user_genres : Len(of(h)) > 0} |->
            Frac(SumSeq([p \in DOMAIN of(g) |-> of(g)[p].imdb_rating]),
                 Len(of(g)))]

\* Lines 324-330: of each of the first rows of the high-rated list, the first
\* genre the user did not name, with the row's rating.
HighRatedGenres(rows, user_genres, ties) ==
    LET high_rated ==
            head(SortValues(
                SelectSeq(rows, LAMBDA r : r.imdb_rating >= TasteRating),
                ties), TasteRows)
        first(content) ==
            LET new == SelectSeq(content.genres, LAMBDA g : g \notin user_genres)
            IN  IF new = <<>> THEN <<>>
                ELSE << <<new[1], content.imdb_rating>> >>
    IN  ConcatAll([k \in DOMAIN high_rated |-> first(high_rated[k])])

\* analyze_user_taste(user_preferences): lines 301-338.
analyze_user_taste(rows, fitted, req, ties) ==
    IF ~fitted
    THEN [status |-> "NotFitted", taste |-> NoTaste]
    ELSE [status |-> "ok",
          taste |->
            [genre_ratings |-> GenreRatings(rows, req.genres),
             underrepresented_genres |-> GenreClasses(rows) \ req.genres,
             high_rated_genres |->
                head(HighRatedGenres(rows, req.genres, ties), TasteGenres)]]

\* ---------------------------------------------------------------- normalizer

\* Raw fields: missing, or up to MaxPieces pieces, some of them padded,
\* empty, blank, repeated or the text 'nan'.
Pieces == {"Drama", " Drama", "Action", "", " ", "nan"}
RawFields == {NaN} \cup UNION {[1..n -> Pieces] : n \in 1..MaxPieces}

\* data_processing.py, clean_genres: [] for a missing value, else the
\* stripped pieces that are neither empty nor 'nan'.
clean_genres(genre_string) ==
    IF genre_string = NaN
    THEN <<>>
    ELSE SelectSeq([i \in 1..Len(SplitStr(genre_string)) |->
                       Strip(SplitStr(genre_string)[i])],
                   LAMBDA genre : genre # "" /\ genre # "nan")

\* clean_actors and clean_directors: the same statements on their field.
clean_actors(actors_string) ==
    IF actors_string = NaN
    THEN <<>>
    ELSE SelectSeq([i \in 1..Len(SplitStr(actors_string)) |->
                       Strip(SplitStr(actors_string)[i])],
                   LAMBDA actor : actor # "" /\ actor # "nan")

clean_directors(director_string) ==
    IF director_string = NaN
    THEN <<>>
    ELSE SelectSeq([i \in 1..Len(SplitStr(director_string)) |->
                       Strip(SplitStr(director_string)[i])],
                   LAMBDA director : director # "" /\ director # "nan")

NoNormalizer == [field |-> NaN, by |-> "none", list |-> <<>>]

\* ---------------------------------------------------------------- basic

\* MovieRecommender (recommendation.py) with its MovieDataProcessor
\* (data_processing.py).  Raw records of a frame given to it.  A row carries
\* at most one genre, maybe written twice, so a raw preference score is 0 or
\* the one value 1 / (|user_vector| + 1e-8).  The description and the year
\* of a row, and what is built from them alone (the TF-IDF text features,
\* the explanation), are left out.
BasicPool ==
    { [genre |-> <<"Action">>, director |-> <<"Joss Whedon">>,
       actors |-> <<"Chris Evans">>, imdb_rating |-> 80],
      [genre |-> <<"Drama">>, director |-> <<"Frank Darabont">>,
       actors |-> <<"Tim Robbins">>, imdb_rating |-> 80],
      [genre |-> NaN, director |-> NaN, actors |-> NaN, imdb_rating |-> 90],
      [genre |-> <<"Drama", " Drama">>, director |-> <<"Joss Whedon ">>,
       actors |-> <<"Chris Evans", " Tim Robbins">>, imdb_rating |-> 65] }

BasicFrame(data) ==
    [i \in 1..Len(data) |->
        [label |-> i - 1, title |-> Titles[i], genre |-> data[i].genre,
         director |-> data[i].director, actors |-> data[i].actors,
         imdb_rating |-> data[i].imdb_rating]]

BasicTables == UNION {[1..n -> BasicPool] : n \in 1..MaxCatalog}

\* process_movie_data, lines 93-95: three list columns, written into the
\* frame that was passed in.
CleanedRows(df) ==
    [p \in 1..Len(df) |->
        [label |-> df[p].label, title |-> df[p].title, genre |-> df[p].genre,
         director |-> df[p].director, actors |-> df[p].actors,
         imdb_rating |-> df[p].imdb_rating,
         genres_clean |-> clean_genres(df[p].genre),
         actors_clean |-> clean_actors(df[p].actors),
         directors_clean |-> clean_directors(df[p].director)]]

\* Lines 98-103: genre_encoder.fit_transform over the cleaned lists; the
\* classes are those of this frame, whatever the encoder knew before.
EncoderClasses(rows) ==
    UNION {Range(rows[p].genres_clean) : p \in DOMAIN rows}

GenreFeatures(rows) ==
    [columns |-> EncoderClasses(rows),
     index |-> [p \in DOMAIN rows |-> rows[p].label],
     values |-> [p \in DOMAIN rows |->
                   [c \in EncoderClasses(rows) |->
                      IF c \in Range(rows[p].genres_clean) THEN 1 ELSE 0]]]

\* Lines 109-110: a copy of the frame with one more column per class (kept
\* together in the field genre_columns).
ProcessedRows(rows) ==
    [p \in DOMAIN rows |->
        [label |-> rows[p].label, title |-> rows[p].title,
         director |-> rows[p].director, imdb_rating |-> rows[p].imdb_rating,
         genres_clean |-> rows[p].genres_clean,
         actors_clean |-> rows[p].actors_clean,
         genre_columns |-> GenreFeatures(rows).values[p]]]

\* process_movie_data(df): the frame as it leaves it, the encoder's classes
\* and the two values it returns that the engine reads.
process_movie_data(df) ==
    [df |-> CleanedRows(df),
     classes |-> EncoderClasses(CleanedRows(df)),
     df_processed |-> ProcessedRows(CleanedRows(df)),
     genre_features |-> GenreFeatures(CleanedRows(df))]

\* recommendation.py line 28: cosine_similarity(self.genre_features), each
\* row taken as the set of its classes set to 1.
GenreSimilarity(genre_features) ==
    cosine_similarity(
        [p \in DOMAIN genre_features.values |->
            {c \in genre_features.columns : genre_features.values[p][c] = 1}])

\* The genre columns df_processed has.
GenreColumns(df_processed) == DOMAIN df_processed[1].genre_columns

\* The user's genres in the order the caller lists them.
PreferredGenres(req) ==
    SelectSeq(<<"Action", "Drama", "Comedy">>, LAMBDA g : g \in req.genres)

\* recommendation.py lines 73-88: one record per top index.
BasicRecommendations(df_processed, top_indices, preference_scores, combined_scores) ==
    [k \in 1..Len(top_indices) |->
        [title |-> df_processed[top_indices[k]].title,
         genres |-> df_processed[top_indices[k]].genres_clean,
         director |-> df_processed[top_indices[k]].director,
         actors |-> df_processed[top_indices[k]].actors_clean,
         imdb_rating |-> df_processed[top_indices[k]].imdb_rating,
         preference_score |-> preference_scores[top_indices[k]],
         combined_score |-> combined_scores[top_indices[k]]]]

\* MovieRecommender.get_recommendations, lines 32-90, with the default
\* weights.  classes is genre_encoder.classes_ as it is at the call.
\* user_vector has a 1 for each class the user names; get_movie_features
\* reads movie_row[classes], a KeyError when a class is no column of
\* df_processed.  A raw score is 0 for a row without a named class and
\* else one value; after (x - min) / (max - min + 1e-8) it is 0, or 1 less
\* some 1e-8 when the raw scores differ (kept as 1: combined scores, here
\* in thousandths, differ by 1e-3 or more when they differ).
basic_get_recommendations(df_processed, classes, req, ties) ==
    IF df_processed = <<>>
    THEN [status |-> "NotFitted", items |-> <<>>]
    ELSE IF ~(classes \subseteq GenreColumns(df_processed))
    THEN [status |-> "KeyError", items |-> <<>>]
    ELSE
    LET user_vector == classes \cap req.genres
        raw == [p \in DOMAIN df_processed |->
                  IF \E c \in user_vector : df_processed[p].genre_columns[c] = 1
                  THEN 1 ELSE 0]
        preference_scores ==
            [p \in DOMAIN raw |->
                IF \E q \in DOMAIN raw : raw[q] # raw[p] THEN raw[p] ELSE 0]
        combined_scores ==
            [p \in DOMAIN raw |->
                Frac(req.rating_weight * df_processed[p].imdb_rating
                         + req.preference_weight * 100 * preference_scores[p],
                     1)]
        top_indices == TopIndices(combined_scores, req.top_n, ties)
    IN  [status |-> "ok",
         items |-> BasicRecommendations(df_processed, top_indices,
                                        preference_scores, combined_scores)]

\* DataFrame.nlargest(n, 'imdb_rating'), keep='first': best first, equal
\* ratings in frame order.
nlargest(rows, n) ==
    LET order == SortedBySimilarity(
                     [p \in DOMAIN rows |-> Frac(rows[p].imdb_rating, 1)])
    IN  [k \in 1..Min2(n, Len(rows)) |-> rows[order[k]]]

\* recommendation.py lines 165-175.
BasicRecords(rows) ==
    [k \in DOMAIN rows |->
        [title |-> rows[k].title, genres |-> rows[k].genres_clean,
         director |-> rows[k].director, actors |-> rows[k].actors_clean,
         imdb_rating |-> rows[k].imdb_rating]]

\* MovieRecommender.get_genre_recommendations, lines 148-177:
\* self.df_processed[genre] is a KeyError for a genre that is no column.
basic_get_genre_recommendations(df_processed, genre, top_n, min_rating) ==
    IF df_processed = <<>>
    THEN [status |-> "NotFitted", items |-> <<>>]
    ELSE IF genre \notin GenreColumns(df_processed)
    THEN [status |-> "KeyError", items |-> <<>>]
    ELSE [status |-> "ok",
          items |-> BasicRecords(nlargest(
              SelectSeq(df_processed, LAMBDA r :
                  r.genre_columns[genre] = 1 /\ r.imdb_rating >= min_rating),
              top_n))]

BasicTasteGenres == 3

\* Lines 196-201: the mean rating (a fraction, in tenths) of every preferred
\* genre that is a column and that some row carries.
BasicGenreRatings(df_processed, genre_features, req) ==
    LET of(g) == SelectSeq(df_processed, LAMBDA r : r.genre_columns[g] = 1)
    IN  [g \in {h \in req.genres \cap genre_features.columns :
                    Len(of(h)) > 0} |->
            Frac(SumSeq([p \in DOMAIN of(g) |-> of(g)[p].imdb_rating]),
                 Len(of(g)))]

\* Line 211: sorted(genre_ratings.items(), key=..., reverse=True)[:3]; the
\* items come in the order of the user's list, and the sort is stable.
BasicHighRatedGenres(genre_ratings, req) ==
    LET items == SelectSeq(PreferredGenres(req),
                           LAMBDA g : g \in DOMAIN genre_ratings)
        order == SortedBySimilarity(
                     [k \in DOMAIN items |-> genre_ratings[items[k]]])
    IN  head([k \in DOMAIN items |->
                 <<items[order[k]], genre_ratings[items[order[k]]]>>],
             BasicTasteGenres)

\* MovieRecommender.analyze_user_taste, lines 179-215.
basic_analyze_user_taste(df_processed, genre_features, req) ==
    IF df_processed = <<>>
    THEN [status |-> "NotFitted", taste |-> NoTaste]
    ELSE [status |-> "ok",
          taste |->
            [genre_ratings |->
                BasicGenreRatings(df_processed, genre_features, req),
             underrepresented_genres |-> genre_features.columns \ req.genres,
             high_rated_genres |->
                BasicHighRatedGenres(
                    BasicGenreRatings(df_processed, genre_features, req),
                    req)]]

\* __init__, lines 15-20: nothing fitted (None, here the empty values); no
\* frame has been handed over.
NoBasic ==
    [df |-> <<>>, genre_encoder |-> {}, df_processed |-> <<>>,
     genre_features |-> [columns |-> {}, index |-> <<>>, values |-> <<>>],
     similarity_matrix |-> <<>>]

\* ---------------------------------------------------------------- state

VARIABLES
    movies_data,    \* the provider's table (EnhancedDataProvider.movies_data)
    view,           \* which provider view the caller fits on
    df,             \* self.df: the rows of the fitted frame
    genre_matrix,   \* self.genre_matrix
    tfidf_matrix,   \* self.tfidf_matrix
    similarity_matrix,  \* self.similarity_matrix
    is_fitted,      \* self.is_fitted
    fit_pc,         \* the statement a running fit is about to execute
    fit_status,     \* how the last fit ended: "none", "ok" or "ValueError"
    ever_fitted,    \* some fit has returned without raising
    request,        \* the caller's preferences, weights and top_n
    argsort_ties,   \* how the build's np.argsort orders equal keys
    result,         \* outcome of the last get_recommendations since the fit
    prev_result,    \* outcome of the get_recommendations before that one
    locals,         \* local variables of the last get_recommendations
    reply,          \* outcome of the last other query since the fit
    basic,          \* the MovieRecommender, its MovieDataProcessor, its frame
    explainer,      \* a process that explains one item, and what it said
    normalizer      \* a raw field and the list made of it

vars == <<movies_data, view, df, genre_matrix, tfidf_matrix, similarity_matrix,
          is_fitted, fit_pc, fit_status, ever_fitted, request, argsort_ties,
          result, prev_result, locals, reply, basic, explainer, normalizer>>

\* What the engine of enhanced_recommendation.py never touches.
elsewhere == <<basic, explainer, normalizer>>

\* The fields fit writes and the queries read.
snapshot == <<df, genre_matrix, tfidf_matrix, similarity_matrix, is_fitted>>

NoResult == [called |-> FALSE, status |-> "none", recs |-> <<>>]

NoReply ==
    [called |-> FALSE, op |-> "none", name |-> "", top_n |-> 0,
     min_rating |-> 0, status |-> "none", items |-> <<>>, taste |-> NoTaste,
     torn |-> FALSE]

\* The matrices were computed from the frame in self.df.
SnapshotConsistent ==
    /\ genre_matrix = GenreMatrix(df)
    /\ tfidf_matrix = TfidfMatrix(df)
    /\ similarity_matrix = cosine_similarity(tfidf_matrix)

\* __init__, lines 14-20: no frame, no matrices (None, here the empty ones),
\* not fitted.
Unfitted ==
    /\ df = <<>>
    /\ genre_matrix = GenreMatrix(<<>>)
    /\ tfidf_matrix = <<>>
    /\ similarity_matrix = <<>>
    /\ is_fitted = FALSE
    /\ fit_pc = "idle"
    /\ fit_status = "none"
    /\ ever_fitted = FALSE
    /\ result = NoResult
    /\ prev_result = NoResult
    /\ locals = NoLocals
    /\ reply = NoReply

\* Nothing else has been constructed or called.
Idle ==
    /\ basic = NoBasic
    /\ explainer = NoExplainer
    /\ normalizer = NoNormalizer

Init ==
    /\ movies_data \in {DataFrame(t) : t \in Tables}
    /\ view \in Views
    /\ request \in Requests
    /\ argsort_ties \in ArgsortTies
    /\ Unfitted
    /\ Idle

\* The outcomes recorded for the calls on the previous snapshot are dropped.
ForgetOutcomes ==
    /\ result' = NoResult
    /\ prev_result' = NoResult
    /\ locals' = NoLocals
    /\ reply' = NoReply

\* fit(df) on a view v of the provider, start to end: lines 22-51.  self.df
\* is the frame that was passed in, so the new column lands in the
\* provider's own table when the view is the table itself.  When
\* fit_transform raises, the statements before it have run and those after
\* it have not.
FitOn(v) ==
    \E rows \in {FittedRows(ProviderView(movies_data, v))} :
    \E X \in {TfidfMatrix(rows)} :
    /\ fit_pc = "idle"
    /\ view' = v
    /\ df' = rows
    /\ movies_data' = IF v = "all" THEN rows ELSE movies_data
    /\ genre_matrix' = GenreMatrix(rows)
    /\ tfidf_matrix' = IF FitRaises(rows) THEN tfidf_matrix ELSE X
    /\ similarity_matrix' =
          IF FitRaises(rows) THEN similarity_matrix ELSE cosine_similarity(X)
    /\ is_fitted' = IF FitRaises(rows) THEN is_fitted ELSE TRUE
    /\ ever_fitted' = (ever_fitted \/ ~FitRaises(rows))
    /\ fit_status' = IF FitRaises(rows) THEN "ValueError" ELSE "ok"
    /\ fit_pc' = "idle"
    /\ ForgetOutcomes
    /\ UNCHANGED <<request, argsort_ties, elsewhere>>

\* A caller that always fits on the same view.
Fit == FitOn(view)

\* A caller that fits again, on any view.
Refit == \E v \in Views : FitOn(v)

\* get_recommendations(user_preferences, top_n, rating_weight,
\* preference_weight): lines 65-133.
GetRecommendations ==
    \E out \in {get_recommendations(df, is_fitted, request, argsort_ties)} :
    /\ result' = [called |-> TRUE, status |-> out.status, recs |-> out.recs]
    /\ prev_result' = result
    /\ locals' = out.locals
    /\ reply' = NoReply
    /\ df' = DfAfterRecommendations(df, out)
    /\ UNCHANGED <<movies_data, view, genre_matrix, tfidf_matrix,
                   similarity_matrix, is_fitted, fit_pc, fit_status,
                   ever_fitted, request, argsort_ties, elsewhere>>

Next == Fit \/ GetRecommendations

Spec == Init /\ [][Next]_vars

\* ---------------------------------------------------------------- service

\* The arguments of the other queries.
QueryTitles == {Titles[i] : i \in 1..MaxCatalog}
QueryGenres == {"Action", "Drama", "Comedy"}
QueryLanguages == {"English", "Hindi"}
\* The smallest and the largest top_n.
QueryTopNs == {1, MaxTopN}
\* min_rating in tenths; 7.0 is the default.
DefaultMinRating == 70
MinRatings == {DefaultMinRating, 85}

\* What a query other than get_recommendations leaves behind.  torn tells
\* that the query got past its is_fitted test while a fit was between two
\* of its statements and the matrices were not those of the frame.
Answer(op, name, top_n, min_rating, out) ==
    /\ reply' = [called |-> TRUE, op |-> op, name |-> name, top_n |-> top_n,
                 min_rating |-> min_rating, status |-> out.status,
                 items |-> out.items, taste |-> out.taste,
                 torn |-> (is_fitted /\ fit_pc # "idle"
                              /\ ~SnapshotConsistent)]
    /\ result' = NoResult
    /\ prev_result' = NoResult
    /\ locals' = NoLocals
    /\ UNCHANGED <<movies_data, view, df, genre_matrix, tfidf_matrix,
                   similarity_matrix, is_fitted, fit_pc, fit_status,
                   ever_fitted, request, argsort_ties, elsewhere>>

GetSimilarMovies ==
    \E title \in QueryTitles, top_n \in QueryTopNs :
    \E out \in {get_similar_movies(df, similarity_matrix, is_fitted,
                                   title, top_n)} :
    Answer("similar", title, top_n, 0,
           [status |-> out.status, items |-> out.items, taste |-> NoTaste])

GetGenreRecommendations ==
    \E genre \in QueryGenres, top_n \in QueryTopNs, min_rating \in MinRatings :
    \E out \in {get_genre_recommendations(df, is_fitted, genre, top_n,
                                          min_rating, argsort_ties)} :
    Answer("genre", genre, top_n, min_rating,
           [status |-> out.status, items |-> out.items, taste |-> NoTaste])

GetLanguageRecommendations ==
    \E language \in QueryLanguages, top_n \in QueryTopNs :
    \E out \in {get_language_recommendations(df, is_fitted, language, top_n,
                                             argsort_ties)} :
    Answer("language", language, top_n, 0,
           [status |-> out.status, items |-> out.items, taste |-> NoTaste])

AnalyzeUserTaste ==
    \E out \in {analyze_user_taste(df, is_fitted, request, argsort_ties)} :
    Answer("taste", "", 0, 0,
           [status |-> out.status, items |-> <<>>, taste |-> out.taste])

\* One recommender, one caller: the preferences the page sends are fixed,
\* the caller fits and queries in any order.
ServiceRequest ==
    [genres |-> {"Action"}, actors |-> {}, directors |-> {},
     content_type |-> "all", language |-> "all", top_n |-> MaxTopN,
     rating_weight |-> DefaultWeights[1],
     preference_weight |-> DefaultWeights[2]]

InitService ==
    /\ movies_data \in {DataFrame(t) : t \in Tables}
    /\ view = "all"
    /\ request = ServiceRequest
    /\ argsort_ties \in ArgsortTies
    /\ Unfitted
    /\ Idle

NextService ==
    \/ Refit
    \/ GetRecommendations
    \/ GetSimilarMovies
    \/ GetGenreRecommendations
    \/ GetLanguageRecommendations
    \/ AnalyzeUserTaste

SpecService == InitService /\ [][NextService]_vars

\* ---------------------------------------------------------------- normalizers

\* The fields of the enhanced engine and of its provider.
engine == <<movies_data, view, df, genre_matrix, tfidf_matrix,
            similarity_matrix, is_fitted, fit_pc, fit_status, ever_fitted,
            result, prev_result, locals>>

\* No provider table and no enhanced engine at work.
EngineAbsent ==
    /\ movies_data = <<>>
    /\ view = "all"
    /\ Unfitted

\* One raw field, given to each normaliser in turn.
InitNormalize ==
    /\ EngineAbsent
    /\ request = ServiceRequest
    /\ argsort_ties = "ascending"
    /\ basic = NoBasic
    /\ explainer = NoExplainer
    /\ normalizer \in {[NoNormalizer EXCEPT !.field = f] : f \in RawFields}

Normalize(by, list) ==
    /\ normalizer' = [normalizer EXCEPT !.by = by, !.list = list]
    /\ UNCHANGED <<engine, request, argsort_ties, reply, basic, explainer>>

\* enhanced_recommendation.py line 30, on one value of the 'genre' column.
FitGenres == Normalize("fit", GenreList(normalizer.field))

\* data_processing.py lines 93-95, on one value of each column.
CleanGenres == Normalize("clean_genres", clean_genres(normalizer.field))
CleanActors == Normalize("clean_actors", clean_actors(normalizer.field))
CleanDirectors ==
    Normalize("clean_directors", clean_directors(normalizer.field))

NextNormalize == FitGenres \/ CleanGenres \/ CleanActors \/ CleanDirectors

SpecNormalize == InitNormalize /\ [][NextNormalize]_vars

\* ---------------------------------------------------------------- explanations

\* The items of the provider, each also with a rating between the two
\* thresholds of the explainer and with one below both.
ExplainRatings == {65, 75}
ExplainMovies ==
    {FittedRow(DataFrame(<<item>>)[1]) : item \in ItemPool}
    \cup {[FittedRow(DataFrame(<<item>>)[1]) EXCEPT !.imdb_rating = r] :
             item \in ItemPool, r \in ExplainRatings}

ExplainRequests ==
    {r \in Requests :
        /\ r.content_type = "all" /\ r.language = "all"
        /\ r.top_n = MaxTopN
        /\ <<r.rating_weight, r.preference_weight>> = DefaultWeights}

InitExplain ==
    /\ EngineAbsent
    /\ request \in ExplainRequests
    /\ argsort_ties = "ascending"
    /\ basic = NoBasic
    /\ normalizer = NoNormalizer
    /\ explainer \in {[NoExplainer EXCEPT !.hash_seed = h, !.movie = m] :
                          h \in HashSeeds, m \in ExplainMovies}

\* _explain_recommendation(movie, user_preferences) in the running process.
Explain ==
    /\ explainer' =
          [explainer EXCEPT
              !.explanation =
                  ExplanationString(explainer.movie, request,
                                    explainer.hash_seed),
              !.earlier = explainer.explanation]
    /\ UNCHANGED <<engine, request, argsort_ties, reply, basic, normalizer>>

\* The program is started again: a new interpreter, a new hash seed.  What
\* was printed before stays with its reader.
Restart ==
    \E h \in HashSeeds :
    /\ explainer' = [explainer EXCEPT !.hash_seed = h]
    /\ UNCHANGED <<engine, request, argsort_ties, reply, basic, normalizer>>

NextExplain == Explain \/ Restart

SpecExplain == InitExplain /\ [][NextExplain]_vars

\* ---------------------------------------------------------------- basic engine

\* The preferences a caller of the basic engine sends.
BasicRequests ==
    {[ServiceRequest EXCEPT !.genres = g] :
        g \in {{}, {"Action"}, {"Action", "Drama"}}}

\* Other catalogs the shared processor is asked to process: one row each.
OtherCatalogs == [1..1 -> BasicPool]

InitBasic ==
    /\ EngineAbsent
    /\ request \in BasicRequests
    /\ argsort_ties \in ArgsortTies
    /\ explainer = NoExplainer
    /\ normalizer = NoNormalizer
    /\ basic \in {[NoBasic EXCEPT !.df = BasicFrame(t)] : t \in BasicTables}

\* MovieRecommender.fit(df), recommendation.py lines 22-30.
BasicFit ==
    \E out \in {process_movie_data(basic.df)} :
    /\ basic' = [df |-> out.df,
                 genre_encoder |-> out.classes,
                 df_processed |-> out.df_processed,
                 genre_features |-> out.genre_features,
                 similarity_matrix |-> GenreSimilarity(out.genre_features)]
    /\ reply' = NoReply
    /\ UNCHANGED <<engine, request, argsort_ties, explainer, normalizer>>

\* process_movie_data(other) on the processor the engine shares, for a
\* frame that is not the engine's: the encoder is fitted again.
ProcessMovieData ==
    \E t \in OtherCatalogs :
    /\ basic' = [basic EXCEPT
                    !.genre_encoder = process_movie_data(BasicFrame(t)).classes]
    /\ UNCHANGED <<engine, request, argsort_ties, reply, explainer,
                   normalizer>>

BasicAnswer(op, name, top_n, min_rating, out) ==
    /\ reply' = [called |-> TRUE, op |-> op, name |-> name, top_n |-> top_n,
                 min_rating |-> min_rating, status |-> out.status,
                 items |-> out.items, taste |-> out.taste, torn |-> FALSE]
    /\ UNCHANGED <<engine, request, argsort_ties, basic, explainer,
                   normalizer>>

BasicGetRecommendations ==
    \E out \in {basic_get_recommendations(basic.df_processed,
                                          basic.genre_encoder, request,
                                          argsort_ties)} :
    BasicAnswer("basic.rank", "", request.top_n, 0,
                [status |-> out.status, items |-> out.items,
                 taste |-> NoTaste])

BasicGetGenreRecommendations ==
    \E genre \in QueryGenres, top_n \in QueryTopNs :
    \E out \in {basic_get_genre_recommendations(basic.df_processed, genre,
                                                top_n, DefaultMinRating)} :
    BasicAnswer("basic.genre", genre, top_n, DefaultMinRating,
                [status |-> out.status, items |-> out.items,
                 taste |-> NoTaste])

BasicAnalyzeUserTaste ==
    \E out \in {basic_analyze_user_taste(basic.df_processed,
                                         basic.genre_features, request)} :
    BasicAnswer("basic.taste", "", 0, 0,
                [status |-> out.status, items |-> <<>>, taste |-> out.taste])

NextBasic ==
    \/ BasicFit
    \/ ProcessMovieData
    \/ BasicGetRecommendations
    \/ BasicGetGenreRecommendations
    \/ BasicAnalyzeUserTaste

SpecBasic == InitBasic /\ [][NextBasic]_vars

\* ---------------------------------------------------------------- properties

\* The last call returned a ranking of a non-empty filtered set.
Ranked == result.called /\ result.status = "ok" /\ locals.filtered_df # <<>>

Filtered == locals.filtered_df
Top == locals.top_indices
Combined == locals.combined_scores
Recs == result.recs
\* The catalog index of the item at a position of the filtered frame.
CatalogIndex(p) == Filtered[p].label

\* A row passes the request's filters.
PassesFilters(r) ==
    /\ request.content_type # "all" => r.type = request.content_type
    /\ request.language # "all" => r.language = request.language

\* The returned records are the rows at the top indices, with their scores.
RecsAreTopRows ==
    /\ Len(Recs) = Len(Top)
    /\ \A k \in DOMAIN Recs :
          /\ Recs[k].title = Filtered[Top[k]].title
          /\ Recs[k].similarity_score = Combined[Top[k]]

\* C1 (as stated): the returned items are in descending order of combined
\* score, and two returned items with the same combined score appear in
\* ascending order of catalog index.
C1_TiesAscending ==
    Ranked =>
        /\ RecsAreTopRows
        /\ \A i, j \in DOMAIN Top :
              i < j =>
                 /\ FracLeq(Combined[Top[j]], Combined[Top[i]])
                 /\ FracEq(Combined[Top[j]], Combined[Top[i]])
                       => CatalogIndex(Top[i]) < CatalogIndex(Top[j])

\* C1 (amended): the returned items are the min(top_n, n) best of the
\* filtered set in non-increasing order of combined score: no item left out
\* scores higher than a returned one.  Nothing is said of equal scores.
C1_SortedDescending ==
    Ranked =>
        /\ RecsAreTopRows
        /\ \A i, j \in DOMAIN Recs :
              i < j => FracLeq(Recs[j].similarity_score, Recs[i].similarity_score)
        /\ \A p \in DOMAIN Filtered :
              p \notin Range(Top) =>
                 \A k \in DOMAIN Top : FracLeq(Combined[p], Combined[Top[k]])

\* Two returned items tie, and the one with the larger catalog index is first.
C1_Witness ==
    /\ Ranked
    /\ Len(Recs) >= 2
    /\ FracEq(Recs[1].similarity_score, Recs[2].similarity_score)
    /\ CatalogIndex(Top[1]) > CatalogIndex(Top[2])

\* The raw score of one item computed from its own attributes: 2 per shared
\* genre, 1.5 per shared cast name, 1.5 on a director match (in halves).
OwnRawScore(movie, req) ==
    GenreWeightX2 * Cardinality(GenreOverlap(movie, req))
    + (IF movie.actors = NaN THEN 0
       ELSE ActorWeightX2 * Cardinality(ActorOverlap(movie, req)))
    + (IF movie.director # NaN /\ DirectorMatch(movie, req)
       THEN DirectorWeightX2 ELSE 0)

\* C2 (as stated): whenever a fitted recommender is asked for a ranking and
\* some item passes the filters, the raw preference score used for every
\* item of the filtered set is that item's own 2 * genre overlap + 1.5 *
\* cast overlap + 1.5 on a director match (0 without overlap).
C2_OwnRawScore ==
    (result.called /\ is_fitted /\ \E k \in DOMAIN df : PassesFilters(df[k]))
        => /\ result.status = "ok"
           /\ Len(locals.raw_scores) = Len(Filtered)
           /\ \A p \in DOMAIN Filtered :
                 locals.raw_scores[p] = OwnRawScore(Filtered[p], request)

\* C3: every returned item has the requested content type and the requested
\* language, and a request whose filters no item passes returns the empty
\* sequence without an error.
C3_FilterExact ==
    (result.called /\ is_fitted) =>
        /\ \A k \in DOMAIN Recs :
              /\ request.content_type # "all"
                    => Recs[k].type = request.content_type
              /\ request.language # "all"
                    => Recs[k].language = request.language
        /\ (\A k \in DOMAIN df : ~PassesFilters(df[k]))
              => result.status = "ok" /\ Recs = <<>>

\* Both filters are set, the catalog has items, none passes: empty result.
C3_Witness ==
    /\ result.called /\ is_fitted
    /\ request.content_type # "all" /\ request.language # "all"
    /\ Len(df) >= 2
    /\ \A k \in DOMAIN df : ~PassesFilters(df[k])
    /\ result.status = "ok" /\ Recs = <<>>

\* C4 (as stated): on a fitted recommender a request returns exactly
\* min(top_n, size of the filtered set) records, each a distinct catalog item.
C4_ExactCount ==
    (result.called /\ is_fitted) =>
        /\ result.status = "ok"
        /\ Len(Recs) =
              Min2(request.top_n,
                   Cardinality({k \in DOMAIN df : PassesFilters(df[k])}))
        /\ \A i, j \in DOMAIN Recs : i # j => Recs[i].title # Recs[j].title

Raw == locals.raw_scores
NormPref == locals.preference_scores
NormImdb == locals.imdb_scores

AllEqual(s) == \A p, q \in DOMAIN s : s[p] = s[q]

\* C5: the normalised preference scores are fractions with a non-zero
\* denominator in [0,1]; when the raw scores differ the least raw score maps
\* to 0 and the greatest to 1; when they are all equal every normalised score
\* is 0.  The quality normalisation divides by no zero either.
C5_PreferenceNormalised ==
    Ranked =>
        /\ Len(NormPref) = Len(Filtered)
        /\ \A p \in DOMAIN NormPref :
              /\ NormPref[p].den > 0
              /\ 0 <= NormPref[p].num /\ NormPref[p].num <= NormPref[p].den
              /\ NormImdb[p].den > 0
              /\ AllEqual(Raw) => NormPref[p].num = 0
              /\ (~AllEqual(Raw) /\ Raw[p] = SeqMin(Raw)) => NormPref[p].num = 0
              /\ (~AllEqual(Raw) /\ Raw[p] = SeqMax(Raw))
                    => NormPref[p].num = NormPref[p].den

\* Several items, all with the same non-zero raw score: all normalise to 0.
C5_Witness ==
    /\ Ranked
    /\ Len(Filtered) >= 2
    /\ AllEqual(Raw) /\ Raw[1] > 0
    /\ \A p \in DOMAIN NormPref : NormPref[p] = Frac(0, 1)

\* C6: when all items of the filtered set have the same rating every
\* normalised quality is 1, and if the raw preference scores tie as well
\* every returned combined score equals rating_weight.
C6_EqualQuality ==
    (Ranked /\ \A p, q \in DOMAIN Filtered :
                  Filtered[p].imdb_rating = Filtered[q].imdb_rating)
        => /\ \A p \in DOMAIN NormImdb :
                 NormImdb[p].den > 0 /\ NormImdb[p].num = NormImdb[p].den
           /\ AllEqual(Raw)
                 => \A k \in DOMAIN Recs :
                       /\ Recs[k].similarity_score.den > 0
                       /\ 10 * Recs[k].similarity_score.num
                             = request.rating_weight * Recs[k].similarity_score.den

\* Two items of equal rating and equal raw score are returned with
\* combined score rating_weight.
C6_Witness ==
    /\ Ranked
    /\ Len(Filtered) >= 2 /\ Len(Recs) >= 2
    /\ \A p, q \in DOMAIN Filtered :
          Filtered[p].imdb_rating = Filtered[q].imdb_rating
    /\ AllEqual(Raw)
    /\ \A k \in DOMAIN Recs :
          10 * Recs[k].similarity_score.num
             = request.rating_weight * Recs[k].similarity_score.den

\* Sorting the filtered positions by rating descending, equal ratings by
\* ascending catalog index.
QualityOrder ==
    LET n == Len(Filtered)
        before(p, q) ==
            \/ Filtered[p].imdb_rating > Filtered[q].imdb_rating
            \/ /\ Filtered[p].imdb_rating = Filtered[q].imdb_rating
               /\ CatalogIndex(p) < CatalogIndex(q)
        rank(p) == 1 + Cardinality({q \in 1..n : before(q, p)})
    IN  [r \in 1..n |-> CHOOSE p \in 1..n : rank(p) = r]

PreferenceOff == request.preference_weight = 0 /\ request.rating_weight > 0

\* C7 (as stated): with preference_weight = 0 and rating_weight > 0 the
\* returned order is the order of the ratings, descending, equal ratings by
\* ascending catalog index.
C7_QualityOrderTiesAscending ==
    (Ranked /\ PreferenceOff) =>
        Top = SubSeq(QualityOrder, 1, Min2(request.top_n, Len(Filtered)))

\* C7 (amended): with preference_weight = 0 and rating_weight > 0 the
\* returned items are the min(top_n, n) best rated of the filtered set in
\* non-increasing order of rating, whatever the preferences.  Nothing is
\* said of equal ratings.
C7_QualityOrder ==
    (Ranked /\ PreferenceOff) =>
        /\ Len(Recs) = Min2(request.top_n, Len(Filtered))
        /\ \A i, j \in DOMAIN Recs :
              i < j => Recs[i].imdb_rating >= Recs[j].imdb_rating
        /\ \A p \in DOMAIN Filtered :
              p \notin Range(Top) =>
                 \A k \in DOMAIN Recs :
                    Filtered[p].imdb_rating <= Recs[k].imdb_rating

\* preference_weight is 0 and the better rated item comes first although
\* the other one matches the preferences better.
C7_Witness ==
    /\ Ranked /\ PreferenceOff
    /\ Len(Recs) >= 2
    /\ Recs[1].imdb_rating > Recs[2].imdb_rating
    /\ Raw[Top[1]] < Raw[Top[2]]

C9_UnitInterval ==
    Ranked =>
        \A k \in DOMAIN Recs :
           /\ Recs[k].similarity_score.den > 0
           /\ 0 <= Recs[k].similarity_score.num
           /\ Recs[k].similarity_score.num <= Recs[k].similarity_score.den

\* C9 (amended): for non-negative weights every returned combined score lies
\* in [0, rating_weight + preference_weight].
C9_WeightSumBound ==
    (Ranked /\ request.rating_weight >= 0 /\ request.preference_weight >= 0) =>
        \A k \in DOMAIN Recs :
           /\ Recs[k].similarity_score.den > 0
           /\ 0 <= Recs[k].similarity_score.num
           /\ 10 * Recs[k].similarity_score.num
                 <= (request.rating_weight + request.preference_weight)
                       * Recs[k].similarity_score.den

\* The weights sum to more than 1 and a returned score is above 1: it is
\* the sum of the weights.
C9_Witness ==
    /\ Ranked
    /\ request.rating_weight + request.preference_weight > 10
    /\ \E k \in DOMAIN Recs :
          /\ Recs[k].similarity_score.num > Recs[k].similarity_score.den
          /\ 10 * Recs[k].similarity_score.num
                = (request.rating_weight + request.preference_weight)
                     * Recs[k].similarity_score.den

ActionFan ==
    /\ request.genres = {"Action"}
    /\ request.actors = {} /\ request.directors = {}
    /\ request.rating_weight = 7 /\ request.preference_weight = 3

HasAction(r) == "Action" \in Range(r.genres)

Similar == reply.called /\ reply.op = "similar" /\ reply.status = "ok"

\* The row of the frame with a title (titles are unique).
RowOf(title) == CHOOSE p \in DOMAIN df : df[p].title = title

\* C11 (as stated): get_similar_movies never returns the item it was asked
\* about, whatever the catalog.
C11_NeverItself ==
    Similar => \A k \in DOMAIN reply.items : reply.items[k].title # reply.name

\* The queried title is in the fitted frame.
Present(title) == \E p \in DOMAIN df : df[p].title = title

\* The catalog index of a returned item.
IndexOf(item) == df[RowOf(item.title)].label

\* A returned list is in non-increasing order of similarity, equal
\* similarities in ascending catalog index.
SimilarOrdered ==
    \A k \in 1..(Len(reply.items) - 1) :
        \/ FracLess(reply.items[k + 1].similarity_score,
                    reply.items[k].similarity_score)
        \/ /\ FracEq(reply.items[k + 1].similarity_score,
                     reply.items[k].similarity_score)
           /\ IndexOf(reply.items[k]) < IndexOf(reply.items[k + 1])

\* C12 (as stated): get_similar_movies on a title of the fitted catalog
\* returns min(top_n, N - 1) items, in non-increasing order of similarity,
\* equal similarities in ascending catalog index.
C12_OrderedAndCounted ==
    (reply.called /\ reply.op = "similar" /\ is_fitted /\ Present(reply.name))
        => /\ reply.status = "ok"
           /\ Len(reply.items) = Min2(reply.top_n, Len(df) - 1)
           /\ SimilarOrdered

\* C13 (as stated): get_similar_movies on a title that is not in the fitted
\* catalog fails with a not-found error; it does not return an empty list.
C13_AbsentIsNotFound ==
    (reply.called /\ reply.op = "similar" /\ is_fitted /\ ~Present(reply.name))
        => reply.status = "NotFound"

\* ---------------------------------------------------------------- fit

\* C14: a query (get_recommendations, get_similar_movies,
\* get_genre_recommendations, get_language_recommendations,
\* analyze_user_taste) made before any fit has succeeded fails as not fitted
\* and returns nothing; once a fit has succeeded no query fails as not
\* fitted.
C14_NotFittedUntilFit ==
    /\ reply.called =>
          /\ reply.status = "NotFitted" <=> ~ever_fitted
          /\ reply.status = "NotFitted" =>
                reply.items = <<>> /\ reply.taste = NoTaste
    /\ result.called =>
          /\ result.status = "NotFitted" <=> ~ever_fitted
          /\ result.status = "NotFitted" => result.recs = <<>>

\* A query was refused after a fit that failed.
C14_Witness ==
    reply.called /\ reply.status = "NotFitted" /\ fit_status = "ValueError"

\* C15 (as stated): fit is all-or-nothing: a fit that fails leaves the
\* frame, the genre matrix, the text matrix, the similarity matrix and the
\* fitted flag as they were.
C15_FailedFitKeepsSnapshot ==
    [][(Refit /\ fit_status' = "ValueError") => UNCHANGED snapshot]_vars

\* C16 (as stated): a fit on a catalog without items fails and produces no
\* snapshot: the recommender holds what it held before the call.
C16_EmptyCatalogRejected ==
    [][(Refit /\ ProviderView(movies_data, view') = <<>>)
          => fit_status' = "ValueError" /\ UNCHANGED snapshot]_vars

\* ---------------------------------------------------------------- threads

\* fit statement by statement, for a fit that runs in one thread while
\* another thread queries the same recommender.  Nothing in the class locks
\* or copies: each statement writes its field in place.

\* Lines 24-30: self.df = df and the 'genres' column.
FitAssignFrame ==
    \E v \in Views :
    \E rows \in {FittedRows(ProviderView(movies_data, v))} :
    /\ fit_pc = "idle"
    /\ fit_pc' = "genre_matrix"
    /\ view' = v
    /\ df' = rows
    /\ movies_data' = IF v = "all" THEN rows ELSE movies_data
    /\ ForgetOutcomes
    /\ UNCHANGED <<genre_matrix, tfidf_matrix, similarity_matrix, is_fitted,
                   fit_status, ever_fitted, request, argsort_ties,
                   elsewhere>>

\* Lines 33-38.
FitGenreMatrix ==
    /\ fit_pc = "genre_matrix"
    /\ fit_pc' = "tfidf_matrix"
    /\ genre_matrix' = GenreMatrix(df)
    /\ UNCHANGED <<movies_data, view, df, tfidf_matrix, similarity_matrix,
                   is_fitted, fit_status, ever_fitted, request, argsort_ties,
                   result, prev_result, locals, reply, elsewhere>>

\* Lines 41-45: the text features and the TF-IDF matrix, or ValueError.
FitTfidfMatrix ==
    /\ fit_pc = "tfidf_matrix"
    /\ fit_pc' = IF FitRaises(df) THEN "idle" ELSE "similarity_matrix"
    /\ tfidf_matrix' = IF FitRaises(df) THEN tfidf_matrix ELSE TfidfMatrix(df)
    /\ fit_status' = IF FitRaises(df) THEN "ValueError" ELSE fit_status
    /\ UNCHANGED <<movies_data, view, df, genre_matrix, similarity_matrix,
                   is_fitted, ever_fitted, request, argsort_ties,
                   result, prev_result, locals, reply, elsewhere>>

\* Line 48.
FitSimilarityMatrix ==
    /\ fit_pc = "similarity_matrix"
    /\ fit_pc' = "is_fitted"
    /\ similarity_matrix' = cosine_similarity(tfidf_matrix)
    /\ UNCHANGED <<movies_data, view, df, genre_matrix, tfidf_matrix,
                   is_fitted, fit_status, ever_fitted, request, argsort_ties,
                   result, prev_result, locals, reply, elsewhere>>

\* Lines 50-51.
FitReturn ==
    /\ fit_pc = "is_fitted"
    /\ fit_pc' = "idle"
    /\ is_fitted' = TRUE
    /\ ever_fitted' = TRUE
    /\ fit_status' = "ok"
    /\ UNCHANGED <<movies_data, view, df, genre_matrix, tfidf_matrix,
                   similarity_matrix, request, argsort_ties,
                   result, prev_result, locals, reply, elsewhere>>

NextThreads ==
    \/ FitAssignFrame
    \/ FitGenreMatrix
    \/ FitTfidfMatrix
    \/ FitSimilarityMatrix
    \/ FitReturn
    \/ GetSimilarMovies

SpecThreads == InitService /\ [][NextThreads]_vars

\* C17 (as stated): a query that runs while a fit is under way never reads a
\* half-updated snapshot: the matrices it reads are those of the frame it
\* reads.
C17_NoTornRead == reply.called => ~reply.torn

\* ---------------------------------------------------------------- frame

\* C18: a query, whether it returns items, returns an empty list or fails,
\* leaves the frame, the three matrices and the fitted flag as they were.
\* Every step of a query leaves an outcome recorded, and a fit leaves none.
C18_QueriesKeepSnapshot ==
    [][(result'.called \/ reply'.called) => UNCHANGED snapshot]_vars

\* A fitted recommender has answered a get_recommendations with items.
C18_Witness ==
    /\ is_fitted /\ df # <<>>
    /\ result.called /\ result.status = "ok" /\ result.recs # <<>>
    /\ ~prev_result.called

\* ---------------------------------------------------------------- matrices

\* The columns that hold a 1 in a row of the genre matrix.
OnesOfRow(p) == {c \in genre_matrix.columns : genre_matrix.values[p][c] = 1}

GenreTop == reply.called /\ reply.op = "genre" /\ reply.status = "ok"

\* The rows of the frame that carry the queried genre and reach min_rating.
Qualifying ==
    {p \in DOMAIN df : /\ reply.name \in Range(df[p].genres)
                       /\ df[p].imdb_rating >= reply.min_rating}

\* The qualifying row in place k when the rows are put in descending order
\* of rating, equal ratings in ascending catalog index.
ExpectedAt(k) ==
    LET better(q, p) ==
            \/ df[q].imdb_rating > df[p].imdb_rating
            \/ /\ df[q].imdb_rating = df[p].imdb_rating
               /\ df[q].label < df[p].label
    IN  CHOOSE p \in Qualifying :
            1 + Cardinality({q \in Qualifying : better(q, p)}) = k

\* C20 (as stated): get_genre_recommendations returns exactly the items that
\* carry the genre and reach min_rating, in descending order of rating,
\* equal ratings in ascending catalog index, cut to top_n.
C20_ExactOrder ==
    GenreTop =>
        /\ Len(reply.items) = Min2(reply.top_n, Cardinality(Qualifying))
        /\ \A k \in DOMAIN reply.items :
              reply.items[k].title = df[ExpectedAt(k)].title

\* C20 (amended): the list holds min(top_n, number of qualifying items)
\* different qualifying items in non-increasing order of rating, and no
\* qualifying item left out has a higher rating than a returned one.
C20_BestByRating ==
    GenreTop =>
        /\ Len(reply.items) = Min2(reply.top_n, Cardinality(Qualifying))
        /\ \A k \in DOMAIN reply.items :
              /\ Present(reply.items[k].title)
              /\ RowOf(reply.items[k].title) \in Qualifying
        /\ \A j, k \in DOMAIN reply.items :
              j < k => /\ reply.items[j].title # reply.items[k].title
                       /\ reply.items[j].imdb_rating >= reply.items[k].imdb_rating
        /\ \A p \in Qualifying :
              (\A k \in DOMAIN reply.items : reply.items[k].title # df[p].title)
                  => \A k \in DOMAIN reply.items :
                        df[p].imdb_rating <= reply.items[k].imdb_rating

\* The list was cut: more items qualify than were asked for, two of them
\* with the same rating.
C20_Witness ==
    /\ GenreTop
    /\ Len(reply.items) = MaxTopN
    /\ Cardinality(Qualifying) > MaxTopN
    /\ \E p, q \in Qualifying :
          p # q /\ df[p].imdb_rating = df[q].imdb_rating

\* ---------------------------------------------------------------- absent genre

\* The last query was a genre_top, on a fitted engine of either kind.
GenreTopDone ==
    /\ reply.called
    /\ \/ reply.op = "genre" /\ is_fitted
       \/ reply.op = "basic.genre" /\ basic.df_processed # <<>>

\* The genres the items of the fitted catalog carry.
CatalogGenres ==
    IF reply.op \in {"genre", "taste"}
    THEN GenreClasses(df)
    ELSE EncoderClasses(basic.df)

\* C21: genre_top called with a genre that no item of the catalog carries
\* returns the empty sequence and raises no error.
C21_AbsentGenreIsEmpty ==
    (GenreTopDone /\ reply.name \notin CatalogGenres)
        => reply.status = "ok" /\ reply.items = <<>>

\* ---------------------------------------------------------------- normalised lists

\* A normaliser has made a list of the raw field.
Normalized == normalizer.by # "none"

\* Tokens that stand for no value.
NullTokens == {"", "nan"}

\* C22: after normalisation no list holds an empty string or a token such
\* as 'nan' that stands for a missing value, and the list of a missing raw
\* field is empty.
C22_NoNullTokens ==
    Normalized =>
        /\ Range(normalizer.list) \cap NullTokens = {}
        /\ normalizer.field = NaN => normalizer.list = <<>>

\* Where a value first occurs, trimmed, in the raw field.
FirstAt(value) ==
    CHOOSE i \in DOMAIN normalizer.field :
        /\ Strip(normalizer.field[i]) = value
        /\ \A j \in 1..(i - 1) : Strip(normalizer.field[j]) # value

\* C23: the normaliser returns a deduplicated sequence: a value the raw
\* field repeats (after trimming) is in the list exactly once, and the
\* values are in the order of their first occurrence.
C23_Deduplicated ==
    Normalized =>
        /\ \A i, j \in DOMAIN normalizer.list :
              normalizer.list[i] = normalizer.list[j] => i = j
        /\ \A i, j \in DOMAIN normalizer.list :
              i < j => FirstAt(normalizer.list[i]) < FirstAt(normalizer.list[j])

\* ---------------------------------------------------------------- similarity matrix

\* S is symmetric, 1 on its diagonal, and 0 between an item of zeros (one
\* whose feature vector is all zero) and any other item.
SymmetricUnitDiagonal(S, zeros) ==
    /\ \A p, q \in DOMAIN S : S[p][q] = S[q][p]
    /\ \A p \in DOMAIN S : FracEq(S[p][p], Frac(1, 1))
    /\ \A p \in zeros : \A q \in DOMAIN S \ {p} : FracEq(S[p][q], Frac(0, 1))

\* C24: the similarity matrix built by fit is symmetric and its diagonal is
\* 1 for every item, an item whose feature vector is all zero included;
\* such an item has similarity 0 to every other item.
C24_SymmetricUnitDiagonal ==
    /\ (is_fitted /\ fit_pc = "idle") =>
          SymmetricUnitDiagonal(similarity_matrix,
              {p \in DOMAIN tfidf_matrix : tfidf_matrix[p] = {}})
    /\ basic.df_processed # <<>> =>
          SymmetricUnitDiagonal(basic.similarity_matrix,
              {p \in DOMAIN basic.df_processed :
                  basic.df_processed[p].genres_clean = <<>>})

\* ---------------------------------------------------------------- explanation

\* The item has been explained; the kinds of the clauses printed, in order.
Explained == explainer.explanation # <<>>
Clauses ==
    [k \in DOMAIN explainer.explanation |-> explainer.explanation[k].clause]
Has(clause) == clause \in Range(Clauses)

\* The place of a clause in an explanation.
ClauseRank(clause) ==
    CASE clause = "genres" -> 1
      [] clause = "actors" -> 2
      [] clause = "director" -> 3
      [] clause \in {"highly_rated", "well_rated"} -> 4
      [] clause = "fallback" -> 5

\* C25: an explanation has, in this order, a genre clause iff the genre
\* overlap is not empty, a cast clause iff the cast overlap is not empty, a
\* director clause iff the director matches, and at most one quality
\* clause (highly rated from 8.0, else well rated from 7.0, else none); the
\* fallback clause is there iff no other clause applies, and then alone.
C25_ExplanationClauses ==
    Explained =>
        /\ \A i, j \in DOMAIN Clauses :
              i < j => ClauseRank(Clauses[i]) < ClauseRank(Clauses[j])
        /\ Has("genres") <=> GenreOverlap(explainer.movie, request) # {}
        /\ Has("actors") <=> ActorOverlap(explainer.movie, request) # {}
        /\ Has("director") <=> DirectorMatch(explainer.movie, request)
        /\ Has("highly_rated") <=> explainer.movie.imdb_rating >= HighRating
        /\ Has("well_rated") <=>
              /\ explainer.movie.imdb_rating >= WellRating
              /\ explainer.movie.imdb_rating < HighRating
        /\ Has("fallback") <=>
              /\ GenreOverlap(explainer.movie, request) = {}
              /\ ActorOverlap(explainer.movie, request) = {}
              /\ ~DirectorMatch(explainer.movie, request)
              /\ explainer.movie.imdb_rating < WellRating
        /\ Has("fallback") => Len(Clauses) = 1

\* An explanation of three clauses or more, the last one a quality clause.
C25_Witness ==
    /\ Explained
    /\ Len(Clauses) >= 3
    /\ Has("director")
    /\ Has("well_rated")

\* The item has been explained twice, for the same preferences.
ExplainedTwice == Explained /\ explainer.earlier # <<>>

\* C26: the explainer is deterministic: the same item and the same
\* preferences always give the same explanation, the order in which several
\* overlapping genres or actors are named included.
C26_Deterministic ==
    ExplainedTwice => explainer.explanation = explainer.earlier

\* ---------------------------------------------------------------- taste

\* The last query was an analyze_taste that returned.
TasteDone ==
    /\ reply.called
    /\ reply.op \in {"taste", "basic.taste"}
    /\ reply.status = "ok"

\* The ratings of the catalog items that carry the genre.
RatingsOf(genre) ==
    IF reply.op = "taste"
    THEN LET of == SelectSeq(df, LAMBDA r : genre \in Range(r.genres))
         IN  [p \in DOMAIN of |-> of[p].imdb_rating]
    ELSE LET of == SelectSeq(basic.df_processed,
                             LAMBDA r : genre \in Range(r.genres_clean))
         IN  [p \in DOMAIN of |-> of[p].imdb_rating]

\* C27: analyze_taste returns the average quality of the items carrying
\* each preferred genre that occurs in the catalog, as underrepresented
\* genres exactly the catalog genres the user did not name, and at most 5
\* highly rated genres, none of them one the user named.
C27_TasteAnalysis ==
    TasteDone =>
        /\ DOMAIN reply.taste.genre_ratings = request.genres \cap CatalogGenres
        /\ \A g \in DOMAIN reply.taste.genre_ratings :
              FracEq(reply.taste.genre_ratings[g],
                     Frac(SumSeq(RatingsOf(g)), Len(RatingsOf(g))))
        /\ reply.taste.underrepresented_genres
              = CatalogGenres \ request.genres
        /\ Len(reply.taste.high_rated_genres) <= TasteGenres
        /\ \A k \in DOMAIN reply.taste.high_rated_genres :
              reply.taste.high_rated_genres[k][1] \notin request.genres

\* ---------------------------------------------------------------- shared processor

\* The last query was a get_recommendations on the fitted basic engine.
BasicRanked ==
    /\ reply.called
    /\ reply.op = "basic.rank"
    /\ basic.df_processed # <<>>

\* What get_recommendations returns with the genre vocabulary of the
\* engine's own last fit.
OwnRanking ==
    basic_get_recommendations(basic.df_processed,
                              basic.genre_features.columns, request,
                              argsort_ties)

\* C28: the results of a fitted MovieRecommender depend only on its own last
\* fit: process_movie_data called later on the shared processor with another
\* catalog neither changes what get_recommendations returns nor makes it
\* fail.
C28_OwnFitOnly ==
    BasicRanked =>
        /\ reply.status = "ok"
        /\ reply.items = OwnRanking.items

\* ---------------------------------------------------------------- caller's catalog

\* The index and the columns of the provider's table as it was built.
ProviderColumns ==
    {"label", "title", "type", "language", "genre", "director", "actors",
     "imdb_rating"}

\* The index and the columns of a frame handed to the basic engine.
FrameColumns ==
    {"label", "title", "genre", "director", "actors", "imdb_rating"}

\* C29: fit leaves the caller's raw catalog unchanged: after fit the frame
\* that was passed in, or that the provider holds, has the fields and
\* values it had before.
C29_CatalogUnchanged ==
    /\ \A p \in DOMAIN movies_data : DOMAIN movies_data[p] = ProviderColumns
    /\ \A p \in DOMAIN basic.df : DOMAIN basic.df[p] = FrameColumns

\* ---------------------------------------------------------------- similarity row

\* The similarity of two items of the fitted frame, by title.
SimilarityOf(title, other) ==
    Cosine(create_text_features(df[RowOf(title)]),
           create_text_features(df[RowOf(other)]))

\* C30: on a recommender fitted on any catalog, a view whose row labels are
\* not 0..N-1 included, get_similar_movies(title) reads the similarity row
\* of the item with that title: it returns, and the similarity_score of
\* each entry is the similarity of the queried item and the returned one.
C30_OwnSimilarityRow ==
    (reply.called /\ reply.op = "similar" /\ is_fitted /\ Present(reply.name))
        => /\ reply.status = "ok"
           /\ \A k \in DOMAIN reply.items :
                 reply.items[k].similarity_score
                     = SimilarityOf(reply.name, reply.items[k].title)
====
